---- MODULE Spec2Model ----
(***************************************************************************)
(* DailyTopics: the topic-modelling pipeline (src/src/models/topic_model.py)*)
(* and its driver (src/scripts/process_topics.py).                         *)
(*                                                                         *)
(* Python values are modelled as follows.                                  *)
(*   dict with string keys  : a function whose DOMAIN is the set of keys   *)
(*                            that are present (Get models dict.get)       *)
(*   dict written key by key: a sequence of <<key, value>> pairs in        *)
(*   and later serialised     insertion order (newspaper_counts/_weights)  *)
(*   list, tuple, ndarray   : a sequence                                   *)
(*   None / a value v       : <<>> / <<v>>  (None, Some(v))                *)
(*   a float count/total    : a reduced fraction <<num, den>>              *)
(*   a calendar day         : an integer; strftime('%Y-%m-%d') is the day  *)
(*   an exception           : the outcome kind "raise"                     *)
(***************************************************************************)
EXTENDS Integers, Sequences, FiniteSets, TLC

VARIABLES
    SKLEARN_AVAILABLE,   \* topic_model.py:16-22, set once at import
    BERTOPIC_AVAILABLE,  \* topic_model.py:33-38, set once at import
    now,                 \* the day datetime.now() falls on
    store,               \* data/topics: (date, algorithm) -> file
    pc,                  \* process_date_range: "idle", "loop", "returned", "raised"
    args,                \* process_date_range's arguments
    current_date,        \* process_date_range's local current_date
    results,             \* process_date_range's local results
    attempted,           \* history: the dates process_single_day was called for
    last,                \* history: the latest process_single_day call
    call,                \* the latest direct process_articles_for_topics call
    writers              \* the runs inside save_topic_results, step by step

vars == <<SKLEARN_AVAILABLE, BERTOPIC_AVAILABLE, now, store, pc, args,
          current_date, results, attempted, last, call, writers>>

(***************************************************************************)
(* Bounds of the model.                                                    *)
(***************************************************************************)
MaxArticles == 2   \* longest document list handed to the pipeline directly
MaxTopics == 2     \* n_topics ranges over 1..MaxTopics
MaxDay == 3        \* calendar days are 1..MaxDay
MaxWords == 11     \* largest vocabulary of a fitted model, one more than TopN

TopN == 10         \* topic_model.py:66, argsort()[:-11:-1]

Newspapers == {"Alpha", "Beta"}
Algorithms == {"lda", "nmf", "bertopic", "other"}
Days == 1..MaxDay
OUTLIER == 0 - 1

(***************************************************************************)
(* Python helpers.                                                         *)
(***************************************************************************)
None == <<>>
Some(v) == <<v>>

Get(d, k, default) == IF k \in DOMAIN d THEN d[k] ELSE default

Put(d, k, v) == [x \in (DOMAIN d) \cup {k} |-> IF x = k THEN v ELSE d[x]]

Range(s) == {s[i] : i \in DOMAIN s}

Map(s, F(_)) == [i \in 1..Len(s) |-> F(s[i])]

RECURSIVE SumSeq(_)
SumSeq(s) == IF s = <<>> THEN 0 ELSE s[1] + SumSeq(Tail(s))

Count(s, P(_)) == Len(SelectSeq(s, P))

RECURSIVE GCD(_, _)
GCD(a, b) == IF b = 0 THEN a ELSE GCD(b, a % b)

\* the float a / b (b > 0), as a reduced fraction
Div(a, b) == LET g == GCD(a, b) IN <<a \div g, b \div g>>

Zero == <<0, 1>>

\* the orders list(set(S)) can produce
Orders(S) == {s \in [1..Cardinality(S) -> S] : \A i, j \in DOMAIN s : i # j => s[i] # s[j]}

DictGet(d, k) == LET i == CHOOSE j \in DOMAIN d : d[j][1] = k IN d[i][2]

(***************************************************************************)
(* The backends.  env is what the libraries do in one run: whether the     *)
(* library call faults, the fitted model's components_ and the rows of     *)
(* transform(); for BERTopic the rows of get_topic_info() and the          *)
(* (word, weight) pairs of get_topic().                                    *)
(***************************************************************************)
\* vectorizer.get_feature_names_out(): the vocabulary, in index order
feature_names ==
    [i \in 1..MaxWords |->
        CASE i = 1 -> "calcio"
          [] i = 2 -> "governo"
          [] OTHER -> "w" \o ToString(i)]

Raised == [kind |-> "raise"]
Returned(v) == [kind |-> "return", value |-> v]

\* numpy's default sort kind is not stable: among equal weights argsort
\* may leave the indices in ascending order (as a stable sort does) or not
ArgsortTies == {"stable", "reversed"}

\* the tie order of the run; the runs that do not vary it sort stably
TiesOf(env) == IF "argsort_ties" \in DOMAIN env THEN env.argsort_ties ELSE "stable"

\* topic.argsort(): the indices by ascending weight
Argsort(topic, ties) ==
    LET n == Len(topic)
        Less(i, j) ==
            \/ topic[i] < topic[j]
            \/ topic[i] = topic[j] /\ (IF ties = "stable" THEN i < j ELSE i > j)
    IN  [p \in 1..n |->
            CHOOSE i \in 1..n : Cardinality({j \in 1..n : Less(j, i)}) = p - 1]

\* topic.argsort()[:-11:-1]: the last TopN indices of argsort, last first
TopWordsIdx(topic, ties) ==
    LET sorted == Argsort(topic, ties)
        n == Len(sorted)
        k == IF n < TopN THEN n ELSE TopN
    IN  [p \in 1..k |-> sorted[n + 1 - p]]

\* topic_model.py:63-72 and 103-112
ExtractTopics(components, ties) ==
    [t \in 1..Len(components) |->
        LET top_words_idx == TopWordsIdx(components[t], ties)
        IN  [topic_id |-> t - 1,
             words    |-> [i \in 1..Len(top_words_idx) |-> feature_names[top_words_idx[i]]],
             weights  |-> [i \in 1..Len(top_words_idx) |-> components[t][top_words_idx[i]]]]]

\* topic_model.py:40-77
perform_lda_sklearn(preprocessed_texts, n_topics, env) ==
    IF ~SKLEARN_AVAILABLE THEN Returned(<<None, None>>)
    ELSE IF env.fault THEN Raised
    ELSE Returned(<<Some(ExtractTopics(env.components, TiesOf(env))), Some(env.dists),
                    "vectorizer", "lda_model">>)

\* topic_model.py:79-117
perform_nmf(preprocessed_texts, n_topics, env) ==
    IF ~SKLEARN_AVAILABLE THEN Returned(<<None, None>>)
    ELSE IF env.fault THEN Raised
    ELSE Returned(<<Some(ExtractTopics(env.components, TiesOf(env))), Some(env.dists),
                    "vectorizer", "nmf_model">>)

\* faulty variant: the row of the outlier label is not skipped
try_bertopic_keeps_outlier(preprocessed_texts, env) ==
    IF ~BERTOPIC_AVAILABLE THEN Returned(<<None, None>>)
    ELSE IF env.fault THEN Returned(<<None, None, None, None>>)
    ELSE LET info == env.topic_info
             topic_representations ==
                 [i \in 1..Len(info) |->
                     [topic_id |-> info[i].Topic,
                      words    |-> [j \in 1..Len(env.get_topic) |-> env.get_topic[j][1]],
                      weights  |-> [j \in 1..Len(env.get_topic) |-> env.get_topic[j][2]],
                      count    |-> info[i].Count]]
         IN  Returned(<<Some(topic_representations), Some(env.labels),
                        Some(env.labels), "topic_model">>)

\* topic_model.py:119-158
try_bertopic(preprocessed_texts, env) ==
    IF ~BERTOPIC_AVAILABLE THEN Returned(<<None, None>>)
    ELSE IF env.fault THEN Returned(<<None, None, None, None>>)
    ELSE LET info == SelectSeq(env.topic_info, LAMBDA t : t.Topic # OUTLIER)
             topic_representations ==
                 [i \in 1..Len(info) |->
                     [topic_id |-> info[i].Topic,
                      words    |-> [j \in 1..Len(env.get_topic) |-> env.get_topic[j][1]],
                      weights  |-> [j \in 1..Len(env.get_topic) |-> env.get_topic[j][2]],
                      count    |-> info[i].Count]]
         IN  Returned(<<Some(topic_representations), Some(env.labels),
                        Some(env.labels), "topic_model">>)

Capitalize(w) ==
    CASE w = "calcio"  -> "Calcio"
      [] w = "governo" -> "Governo"
      [] OTHER         -> w

\* topic_model.py:160-166
generate_topic_label(topic_words) ==
    IF topic_words = <<>> THEN "Miscellaneous" ELSE Capitalize(topic_words[1])

(***************************************************************************)
(* process_articles_for_topics, topic_model.py:168-266.                    *)
(***************************************************************************)
\* faulty variant: the texts are collected without the `if` filter
PreprocessedTextsUnfiltered(articles) ==
    Map(articles, LAMBDA a : Get(a, "preprocessed_text", ""))

\* topic_model.py:170
PreprocessedTexts(articles) ==
    Map(SelectSeq(articles, LAMBDA a : Get(a, "preprocessed_text", "") # ""),
        LAMBDA a : Get(a, "preprocessed_text", ""))

\* `a, b, _, _ = f()`: a ValueError unless f returned four values
Unpack4(r) ==
    IF r.kind = "raise" \/ Len(r.value) # 4 THEN Raised ELSE r

\* topic_model.py:178-187: the backend the branch taken calls
Backend(algorithm) ==
    IF algorithm = "nmf" THEN "nmf"
    ELSE IF algorithm = "bertopic" /\ BERTOPIC_AVAILABLE THEN "bertopic"
    ELSE "lda"

\* topic_model.py:178-187.  The locals the branch taken leaves bound.
ChooseAlgorithm(algorithm, preprocessed_texts, n_topics, env) ==
    IF Backend(algorithm) = "nmf" THEN
        LET r == Unpack4(perform_nmf(preprocessed_texts, n_topics, env))
        IN  IF r.kind = "raise" THEN Raised
            ELSE [kind |-> "ok", topics |-> r.value[1],
                  dists_bound |-> TRUE, doc_topic_dists |-> r.value[2]]
    ELSE IF Backend(algorithm) = "bertopic" THEN
        LET r == Unpack4(try_bertopic(preprocessed_texts, env))
        IN  IF r.kind = "raise" THEN Raised
            ELSE [kind |-> "ok", topics |-> r.value[1],
                  dists_bound |-> FALSE, doc_topic_dists |-> None]
    ELSE
        LET r == Unpack4(perform_lda_sklearn(preprocessed_texts, n_topics, env))
        IN  IF r.kind = "raise" THEN Raised
            ELSE [kind |-> "ok", topics |-> r.value[1],
                  dists_bound |-> TRUE, doc_topic_dists |-> r.value[2]]

\* `not topics`: None and the empty list are both falsy
Truthy(opt) == opt # None /\ opt[1] # <<>>

\* faulty variant: among equal maxima the last index is taken
ArgmaxLast(row) ==
    LET j == CHOOSE j \in 1..Len(row) :
                 /\ \A k \in 1..Len(row) : row[k] <= row[j]
                 /\ \A k \in (j + 1)..Len(row) : row[k] < row[j]
    IN  j - 1

\* np.argmax: the (0-based) index of the first maximum
Argmax(row) ==
    LET j == CHOOSE j \in 1..Len(row) :
                 /\ \A k \in 1..Len(row) : row[k] <= row[j]
                 /\ \A k \in 1..(j - 1) : row[k] < row[j]
    IN  j - 1

\* faulty variant: no bound check, a position past the array reads its last row
AssignDominantTopicsClamped(articles, locals) ==
    IF locals.dists_bound /\ locals.doc_topic_dists # None THEN
        LET doc_topic_dists == locals.doc_topic_dists[1]
            Row_(i) == doc_topic_dists[IF i <= Len(doc_topic_dists)
                                       THEN i ELSE Len(doc_topic_dists)]
        IN  [i \in 1..Len(articles) |->
                Put(Put(articles[i], "dominant_topic", Argmax(Row_(i))),
                    "topic_distribution", Row_(i))]
    ELSE articles

\* topic_model.py:197-207: the article dicts are written in place
AssignDominantTopics(articles, locals) ==
    IF locals.dists_bound /\ locals.doc_topic_dists # None THEN
        LET doc_topic_dists == locals.doc_topic_dists[1]
        IN  [i \in 1..Len(articles) |->
                IF i <= Len(doc_topic_dists)
                THEN Put(Put(articles[i], "dominant_topic", Argmax(doc_topic_dists[i])),
                         "topic_distribution", doc_topic_dists[i])
                ELSE Put(Put(articles[i], "dominant_topic", OUTLIER),
                         "topic_distribution", <<>>)]
    ELSE articles

\* topic_model.py:218-224
ArticleEntry(article) ==
    [article_id |-> Get(article, "article_id", ""),
     title      |-> Get(article, "title", ""),
     newspaper  |-> Get(article, "newspaper", ""),
     url        |-> Get(article, "url", ""),
     summary    |-> Get(article, "summary", "")]

\* faulty variant: every assigned article is listed under every topic
InTopicAny(article, topic_id) ==
    "dominant_topic" \in DOMAIN article

\* topic_model.py:216
InTopic(article, topic_id) ==
    "dominant_topic" \in DOMAIN article /\ article["dominant_topic"] = topic_id

\* topic_model.py:209-224
GroupArticlesByTopic(topics, articles) ==
    [topic_id \in {topics[t]["topic_id"] : t \in 1..Len(topics)} |->
        Map(SelectSeq(articles, LAMBDA a : InTopic(a, topic_id)), ArticleEntry)]

\* faulty variant: the count forgets to compare the newspaper
CountInTopicUnfiltered(topic_articles, newspaper) ==
    Len(topic_articles)

\* topic_model.py:242
CountInTopic(topic_articles, newspaper) ==
    Count(topic_articles, LAMBDA a : Get(a, "newspaper", "") = newspaper)

\* faulty variant: the proportion is taken over all documents of the run
TotalArticles(articles, newspaper) ==
    Len(articles)

\* topic_model.py:246
TotalFromNewspaper(articles, newspaper) ==
    Count(articles, LAMBDA a : Get(a, "newspaper", "") = newspaper)

\* topic_model.py:246-250
Weight(count, total_articles_from_newspaper) ==
    IF total_articles_from_newspaper > 0
    THEN Div(count, total_articles_from_newspaper)
    ELSE Zero

\* faulty variant: only the sources of documents listed under some label are kept
NewspaperSetAssigned(articles) ==
    {Get(a, "newspaper", "") :
        a \in {b \in Range(articles) :
                  "dominant_topic" \in DOMAIN b /\ b["dominant_topic"] # OUTLIER}}

\* topic_model.py:235, the set
NewspaperSet(articles) == {Get(a, "newspaper", "") : a \in Range(articles)}

\* topic_model.py:235, list(set): the members in the order their hashes give
ListOfSet(S, hash_order) == SelectSeq(hash_order, LAMBDA x : x \in S)

\* topic_model.py:236-255, for one topic
NewspaperStats(topic, articles, newspapers) ==
    LET counts == [i \in 1..Len(newspapers) |->
                      <<newspapers[i], CountInTopic(topic["articles"], newspapers[i])>>]
        weights == [i \in 1..Len(newspapers) |->
                      <<newspapers[i],
                        Weight(counts[i][2], TotalFromNewspaper(articles, newspapers[i]))>>]
    IN  Put(Put(topic, "newspaper_counts", counts), "newspaper_weights", weights)

\* topic_model.py:193-255
ComposeTopics(raw_topics, articles, newspapers) ==
    LET articles_by_topic == GroupArticlesByTopic(raw_topics, articles)
        Build(topic) ==
            LET labelled == Put(topic, "label", generate_topic_label(topic["words"]))
                with_articles == Put(labelled, "articles", articles_by_topic[topic["topic_id"]])
            IN  NewspaperStats(with_articles, articles, newspapers)
    IN  Map(raw_topics, Build)

\* faulty variant: the documents are counted after the empty texts were dropped
NumArticlesKept(articles) == Len(PreprocessedTexts(articles))

\* topic_model.py:260, len(articles)
NumArticles(articles) == Len(articles)

\* topic_model.py:168-266.  The outcome is "result" (value is the returned
\* dict), "none" (None is returned) or "raise"; articles is the caller's list
\* as the call leaves it, invoked the backend that was called ("" when none).
process_articles_for_topics(articles, algorithm, n_topics, env) ==
    LET preprocessed_texts == PreprocessedTexts(articles)
    IN  IF preprocessed_texts = <<>>
        THEN [kind |-> "none", articles |-> articles, invoked |-> ""]
        ELSE
        LET locals == ChooseAlgorithm(algorithm, preprocessed_texts, n_topics, env)
            invoked == Backend(algorithm)
        IN  IF locals.kind = "raise"
            THEN [kind |-> "raise", articles |-> articles, invoked |-> invoked]
            ELSE IF ~Truthy(locals.topics)
            THEN [kind |-> "none", articles |-> articles, invoked |-> invoked]
            ELSE
            LET assigned == AssignDominantTopics(articles, locals)
                newspapers == ListOfSet(NewspaperSet(articles), env.hash_order)
                topics == ComposeTopics(locals.topics[1], assigned, newspapers)
            IN  [kind |-> "result",
                 articles |-> assigned,
                 invoked |-> invoked,
                 value |-> [date         |-> now,
                            algorithm    |-> algorithm,
                            num_articles |-> NumArticles(articles),
                            num_topics   |-> Len(topics),
                            topics       |-> topics]]

(***************************************************************************)
(* The inputs of one run: the documents and what the libraries return.     *)
(***************************************************************************)
\* a document as the collector and the preprocessor leave it; its
\* preprocessed_text is present, empty or missing
Shapes == [newspaper : Newspapers, text : {"present", "empty", "missing"}]

MkArticle(i, shape) ==
    LET base == [article_id |-> "a" \o ToString(i), newspaper |-> shape.newspaper]
    IN  CASE shape.text = "present" -> Put(base, "preprocessed_text", "calcio")
          [] shape.text = "empty"   -> Put(base, "preprocessed_text", "")
          [] OTHER                  -> base

Corpora ==
    {[i \in 1..Len(c) |-> MkArticle(i, c[i])] :
        c \in UNION {[1..k -> Shapes] : k \in 0..MaxArticles}}

\* transform(): one row per text, one column per topic
DistRows(n_topics) == [1..n_topics -> {0, 1}]

\* components_: one row per topic over feature_names
ComponentSamples(n_topics) ==
    {[t \in 1..n_topics |-> IF t = 1 THEN <<1, 3>> ELSE <<3, 1>>]}

\* the rank of a source id in lexical order
Lex(newspaper) ==
    CASE newspaper = ""      -> 0
      [] newspaper = "Alpha" -> 1
      [] newspaper = "Beta"  -> 2

LexSorted(S) == CHOOSE s \in Orders(S) : \A i, j \in DOMAIN s : i < j => Lex(s[i]) < Lex(s[j])

SortedSeq(S) == CHOOSE s \in Orders(S) : \A i, j \in DOMAIN s : i < j => s[i] < s[j]

\* get_topic_info(): one row per label in use, by ascending label
TopicInfo(labels) ==
    LET ids == SortedSeq(Range(labels))
    IN  [i \in 1..Len(ids) |->
            [Topic |-> ids[i], Count |-> Count(labels, LAMBDA l : l = ids[i])]]

SklearnEnvs(articles, n_topics) ==
    LET m == Len(PreprocessedTexts(articles))
    IN  {[fault |-> TRUE, hash_order |-> LexSorted(Newspapers)]}
        \cup
        {[fault |-> FALSE, components |-> c, dists |-> d, hash_order |-> o] :
            c \in ComponentSamples(n_topics),
            d \in [1..m -> DistRows(n_topics)],
            o \in Orders(Newspapers)}

BertEnvs(articles) ==
    LET m == Len(PreprocessedTexts(articles))
    IN  {[fault |-> TRUE, hash_order |-> LexSorted(Newspapers)]}
        \cup
        {[fault |-> FALSE, labels |-> l, topic_info |-> TopicInfo(l),
          get_topic |-> << <<"governo", 3>>, <<"calcio", 1>> >>, hash_order |-> o] :
            l \in [1..m -> OUTLIER..(MaxTopics - 1)],
            o \in Orders(Newspapers)}

\* a library that is not installed is never called
NoLibraryEnv == [fault |-> TRUE, hash_order |-> LexSorted(Newspapers)]

Envs(articles, algorithm, n_topics) ==
    IF algorithm = "bertopic" /\ BERTOPIC_AVAILABLE
    THEN BertEnvs(articles)
    ELSE IF SKLEARN_AVAILABLE
    THEN SklearnEnvs(articles, n_topics)
    ELSE {NoLibraryEnv}

\* the library outcomes sampled for the driver: the fault, and one fitted model
DayEnvs(articles, algorithm, n_topics) ==
    {env \in Envs(articles, algorithm, n_topics) :
        \/ env.fault
        \/ /\ env.hash_order = LexSorted(Newspapers)
           /\ "labels" \in DOMAIN env => \A i \in DOMAIN env.labels : env.labels[i] = 0
           /\ "dists" \in DOMAIN env =>
                  /\ \A i \in DOMAIN env.dists :
                         env.dists[i] = [c \in 1..n_topics |-> IF c = 1 THEN 1 ELSE 0]}

(***************************************************************************)
(* The store (data/topics) and the article database.                       *)
(***************************************************************************)
Absent == [kind |-> "absent"]
Partial == [kind |-> "partial"]
JsonFile(content) == [kind |-> "json", content |-> content]

\* what the file system does to one save
DiskOutcomes == {"ok", "open_fails", "write_fails"}

\* faulty variant: the file is opened in append mode, so a second save adds
\* its text after the first one's
save_topic_results_appends(topic_results, files, disk) ==
    LET date_str == Get(topic_results, "date", now)
        algorithm == Get(topic_results, "algorithm", "unknown")
        filename == <<date_str, algorithm>>
    IN  CASE disk = "ok" ->
               [kind |-> "return", value |-> filename,
                store |-> [files EXCEPT ![filename] =
                              IF files[filename].kind = "absent"
                              THEN JsonFile(topic_results) ELSE Partial]]
          [] disk = "write_fails" ->
               [kind |-> "raise", store |-> [files EXCEPT ![filename] = Partial]]
          [] OTHER ->
               [kind |-> "raise", store |-> files]

\* topic_model.py:268-282.  open(filename, 'w') truncates the file before
\* json.dump writes it.
save_topic_results(topic_results, files, disk) ==
    LET date_str == Get(topic_results, "date", now)
        algorithm == Get(topic_results, "algorithm", "unknown")
        filename == <<date_str, algorithm>>
    IN  CASE disk = "ok" ->
               [kind |-> "return", value |-> filename,
                store |-> [files EXCEPT ![filename] = JsonFile(topic_results)]]
          [] disk = "write_fails" ->
               [kind |-> "raise", store |-> [files EXCEPT ![filename] = Partial]]
          [] OTHER ->
               [kind |-> "raise", store |-> files]

\* plots.py:29-40
load_topic_data(date_str, algorithm) ==
    LET file == store[<<date_str, algorithm>>]
    IN  CASE file.kind = "absent" -> Returned(None)
          [] file.kind = "json"   -> Returned(Some(file.content))
          [] OTHER                -> Raised

\* database.py:168-196: a row of the articles table (database.py:32-46)
Row(date_str, i, newspaper, title) ==
    [id |-> "d" \o ToString(date_str) \o "-" \o ToString(i),
     newspaper |-> newspaper, title |-> title]

\* the rows the database can hold for one day
DayRows(date_str) ==
    {<<>>,
     <<Row(date_str, 1, "Alpha", "Il")>>,
     <<Row(date_str, 1, "Alpha", "Calcio")>>,
     <<Row(date_str, 1, "Alpha", "Il"), Row(date_str, 2, "Beta", "Calcio")>>}

\* preprocess.py:63-105 on the sampled titles: lower case, stop words and
\* tokens of at most two letters dropped
preprocess_text_basic(text) ==
    CASE text = "Calcio" -> "calcio"
      [] OTHER           -> ""

\* preprocess.py:136-159
preprocess_article(article) ==
    preprocess_text_basic(Get(article, "title", ""))

\* preprocess.py:161-170
preprocess_articles(articles) ==
    Map(articles, LAMBDA a : Put(a, "preprocessed_text", preprocess_article(a)))

(***************************************************************************)
(* process_single_day, process_topics.py:23-50.                            *)
(***************************************************************************)
\* process_topics.py:44, `if topic_results:`
ShouldSave(out) == out.kind = "result"

\* faulty variant: the output file is opened for writing before the result is tested
process_single_day_opens_first(date_str, algorithm, n_topics, rows, env, disk) ==
    IF rows = <<>>
    THEN [kind |-> "none", stage |-> "no_articles", store |-> store, composed |-> None]
    ELSE
    LET preprocessed_articles == preprocess_articles(rows)
        out == process_articles_for_topics(preprocessed_articles, algorithm, n_topics, env)
        opened == [store EXCEPT ![<<now, algorithm>>] = Partial]
    IN  IF out.kind = "raise"
        THEN [kind |-> "raise", stage |-> "backend_raise", store |-> store,
              composed |-> None]
        ELSE IF ShouldSave(out)
        THEN LET saved == save_topic_results(out.value, opened, disk)
             IN  IF saved.kind = "raise"
                 THEN [kind |-> "raise", stage |-> "save_raise", store |-> saved.store,
                       composed |-> Some(out.value)]
                 ELSE [kind |-> "result", stage |-> "saved", store |-> saved.store,
                       composed |-> Some(out.value), value |-> out.value]
        ELSE [kind |-> "none", stage |-> "no_result", store |-> opened, composed |-> None]

\* process_topics.py:23-50.  stage records how far the call got; composed is
\* the result process_articles_for_topics returned, if any.
process_single_day(date_str, algorithm, n_topics, rows, env, disk) ==
    IF rows = <<>>
    THEN [kind |-> "none", stage |-> "no_articles", store |-> store, composed |-> None]
    ELSE
    LET preprocessed_articles == preprocess_articles(rows)
        out == process_articles_for_topics(preprocessed_articles, algorithm, n_topics, env)
    IN  IF out.kind = "raise"
        THEN [kind |-> "raise", stage |-> "backend_raise", store |-> store,
              composed |-> None]
        ELSE IF ShouldSave(out)
        THEN LET saved == save_topic_results(out.value, store, disk)
             IN  IF saved.kind = "raise"
                 THEN [kind |-> "raise", stage |-> "save_raise", store |-> saved.store,
                       composed |-> Some(out.value)]
                 ELSE [kind |-> "result", stage |-> "saved", store |-> saved.store,
                       composed |-> Some(out.value), value |-> out.value]
        ELSE [kind |-> "none", stage |-> "no_result", store |-> store, composed |-> None]

(***************************************************************************)
(* save_topic_results step by step, for runs that save at the same time.   *)
(***************************************************************************)
\* two processes running process_single_day
Runs == {1, 2}

\* the write() calls the buffered file makes for a result: the text grows
\* with the articles listed, sampled as one buffer per input document
Flushes(topic_results) == topic_results.num_articles

\* json.dump's text, buffer by buffer
Text(topic_results) ==
    [k \in 1..Flushes(topic_results) |-> [text |-> topic_results, part |-> k]]

\* the zero bytes a write past the end of the file leaves before it
Hole == [text |-> [kind |-> "zeros"], part |-> 0]

\* write(): one buffer at the writer's own file position
WriteAt(chunks, pos, chunk) ==
    IF pos <= Len(chunks)
    THEN [chunks EXCEPT ![pos] = chunk]
    ELSE chunks \o [i \in 1..(pos - Len(chunks) - 1) |-> Hole] \o <<chunk>>

TextFile(chunks) == [kind |-> "text", chunks |-> chunks]

\* topic_model.py:272-275
Filename(topic_results) ==
    <<Get(topic_results, "date", now), Get(topic_results, "algorithm", "unknown")>>

(***************************************************************************)
(* The state machine.                                                      *)
(***************************************************************************)
Init ==
    /\ SKLEARN_AVAILABLE \in BOOLEAN
    /\ BERTOPIC_AVAILABLE \in BOOLEAN
    /\ now \in Days
    /\ store = [k \in Days \X Algorithms |-> Absent]
    /\ pc = "idle"
    /\ args = [start_date |-> 1, end_date |-> 0, algorithm |-> "lda", n_topics |-> 1]
    /\ current_date = 1
    /\ results = <<>>
    /\ attempted = <<>>
    /\ last = [kind |-> "init", stage |-> "init", composed |-> None]
    /\ call = [kind |-> "ready"]
    /\ writers = [w \in Runs |-> [pc |-> "idle"]]

\* faulty variant: the loop steps over a day
DayAfterNext(date) == date + 2

\* process_topics.py:73, current_date += timedelta(days=1)
NextDay(date) == date + 1

\* process_topics.py:52-55
StartDateRange ==
    /\ pc = "idle"
    /\ \E start_date \in Days, end_date \in Days,
          algorithm \in Algorithms, n_topics \in {1, 2} :
          /\ args' = [start_date |-> start_date, end_date |-> end_date,
                      algorithm |-> algorithm, n_topics |-> n_topics]
          /\ current_date' = start_date
    /\ results' = <<>>
    /\ pc' = "loop"
    /\ UNCHANGED <<writers, SKLEARN_AVAILABLE, BERTOPIC_AVAILABLE, now, store, attempted, last, call>>

\* process_topics.py:57-73: one pass of the loop
LoopDateRange ==
    /\ pc = "loop"
    /\ current_date <= args.end_date
    /\ \E rows \in DayRows(current_date), disk \in DiskOutcomes :
       \E env \in DayEnvs(preprocess_articles(rows), args.algorithm, args.n_topics) :
       \E topic_results \in {process_single_day(current_date, args.algorithm,
                                                 args.n_topics, rows, env, disk)} :
              /\ store' = topic_results.store
              /\ attempted' = Append(attempted, current_date)
              /\ last' = [date_str |-> current_date, algorithm |-> args.algorithm,
                          kind |-> topic_results.kind, stage |-> topic_results.stage,
                          composed |-> topic_results.composed]
              /\ IF topic_results.kind = "raise"
                 THEN /\ pc' = "raised"
                      /\ UNCHANGED <<results, current_date>>
                 ELSE /\ pc' = "loop"
                      /\ results' = IF topic_results.kind = "result"
                                    THEN Put(results, current_date, topic_results.value)
                                    ELSE results
                      /\ current_date' = NextDay(current_date)
    /\ UNCHANGED <<writers, SKLEARN_AVAILABLE, BERTOPIC_AVAILABLE, now, args, call>>

\* process_topics.py:57 and 75
ReturnDateRange ==
    /\ pc = "loop"
    /\ current_date > args.end_date
    /\ pc' = "returned"
    /\ UNCHANGED <<writers, SKLEARN_AVAILABLE, BERTOPIC_AVAILABLE, now, store, args,
                   current_date, results, attempted, last, call>>

Next == StartDateRange \/ LoopDateRange \/ ReturnDateRange

Spec == Init /\ [][Next]_vars

\* process_date_range is sequential code: once called, its loop keeps
\* taking its next step until it returns or an exception leaves it
SpecLive == Spec /\ WF_vars(LoopDateRange) /\ WF_vars(ReturnDateRange)

\* one direct call of process_articles_for_topics
CallProcessArticles ==
    /\ call.kind = "ready"
    /\ \E articles \in Corpora, algorithm \in Algorithms, n_topics \in 1..MaxTopics :
       \E env \in Envs(articles, algorithm, n_topics) :
          call' = [kind |-> "returned", articles |-> articles, algorithm |-> algorithm,
                   n_topics |-> n_topics, env |-> env,
                   out |-> process_articles_for_topics(articles, algorithm, n_topics, env)]
    /\ UNCHANGED <<writers, SKLEARN_AVAILABLE, BERTOPIC_AVAILABLE, now, store, pc, args,
                   current_date, results, attempted, last>>

NextPipeline == CallProcessArticles

\* the call is made on day 1
InitPipeline == Init /\ now = 1

SpecPipeline == InitPipeline /\ [][NextPipeline]_vars

\* a first call of process_articles_for_topics that returns a result
FirstRun ==
    /\ call.kind = "ready"
    /\ \E articles \in Corpora, algorithm \in Algorithms, n_topics \in {1, 2} :
       \E env \in DayEnvs(articles, algorithm, n_topics) :
       \E out \in {process_articles_for_topics(articles, algorithm, n_topics, env)} :
          /\ out.kind = "result"
          /\ call' = [kind |-> "returned", articles |-> articles, algorithm |-> algorithm,
                      n_topics |-> n_topics, env |-> env, out |-> out]
    /\ UNCHANGED <<writers, SKLEARN_AVAILABLE, BERTOPIC_AVAILABLE, now, store, pc, args,
                   current_date, results, attempted, last>>

\* a second call, on the list the first call was handed (the same dict
\* objects, as the first call left them); fresh is what the same call with the
\* same library outcome returns on documents no call has touched
SecondRun ==
    /\ call.kind = "returned"
    /\ \E algorithm \in Algorithms, n_topics \in {1, 2} :
       \E env \in DayEnvs(call.out.articles, algorithm, n_topics) :
          call' = [kind |-> "rerun", articles |-> call.articles,
                   first |-> [algorithm |-> call.algorithm, out |-> call.out],
                   algorithm |-> algorithm, n_topics |-> n_topics, env |-> env,
                   out |-> process_articles_for_topics(call.out.articles, algorithm,
                                                       n_topics, env),
                   fresh |-> process_articles_for_topics(call.articles, algorithm,
                                                         n_topics, env)]
    /\ UNCHANGED <<writers, SKLEARN_AVAILABLE, BERTOPIC_AVAILABLE, now, store, pc, args,
                   current_date, results, attempted, last>>

NextRerun == FirstRun \/ SecondRun

SpecRerun == InitPipeline /\ [][NextRerun]_vars

\* the clock read at topic_model.py:259 moves on between two calls
DayPasses ==
    /\ call.kind = "returned"
    /\ now < MaxDay
    /\ now' = now + 1
    /\ UNCHANGED <<writers, SKLEARN_AVAILABLE, BERTOPIC_AVAILABLE, store, pc, args,
                   current_date, results, attempted, last, call>>

\* the first call made again, possibly by another process: equal documents
\* (a fresh copy), the same algorithm and n_topics, and libraries that return
\* what they returned the first time; only the iteration order of the set of
\* sources (topic_model.py:235) is the second process's own
RepeatRun ==
    /\ call.kind = "returned"
    /\ \E hash_order \in Orders(Newspapers) :
       \E env \in {[call.env EXCEPT !.hash_order = hash_order]} :
          call' = [kind |-> "repeated", articles |-> call.articles,
                   algorithm |-> call.algorithm, n_topics |-> call.n_topics,
                   env |-> env, first |-> call.out, first_env |-> call.env,
                   out |-> process_articles_for_topics(call.articles, call.algorithm,
                                                       call.n_topics, env)]
    /\ UNCHANGED <<writers, SKLEARN_AVAILABLE, BERTOPIC_AVAILABLE, now, store, pc, args,
                   current_date, results, attempted, last>>

NextRepeat == FirstRun \/ DayPasses \/ RepeatRun

SpecRepeat == InitPipeline /\ [][NextRepeat]_vars

\* results process_articles_for_topics returns today, for the sampled rows
SampleResults ==
    UNION {LET articles == preprocess_articles(rows)
           IN  {out.value :
                   out \in {o \in {process_articles_for_topics(articles, algorithm, 1, env) :
                                       env \in DayEnvs(articles, algorithm, 1)} :
                               o.kind = "result"}} :
           rows \in DayRows(now), algorithm \in Algorithms}

\* one call of save_topic_results on the store as earlier calls left it
SaveTopicResults ==
    /\ \E topic_results \in SampleResults, disk \in DiskOutcomes :
       \E saved \in {save_topic_results(topic_results, store, disk)} :
          /\ store' = saved.store
          /\ call' = [kind |-> "saved", topic_results |-> topic_results, disk |-> disk,
                      before |-> store, outcome |-> saved.kind]
    /\ UNCHANGED <<writers, SKLEARN_AVAILABLE, BERTOPIC_AVAILABLE, now, pc, args,
                   current_date, results, attempted, last>>

NextStore == SaveTopicResults

SpecStore == InitPipeline /\ [][NextStore]_vars

\* process_topics.py:44-45: a run has its result and calls save_topic_results;
\* the runs considered save under one file name
BeginSave(w) ==
    /\ writers[w].pc = "idle"
    /\ \E topic_results \in SampleResults :
          /\ \A v \in Runs : writers[v].pc # "idle" =>
                 Filename(writers[v].topic_results) = Filename(topic_results)
          /\ writers' = [writers EXCEPT ![w] = [pc |-> "open", written |-> 0,
                                                topic_results |-> topic_results]]
    /\ UNCHANGED <<SKLEARN_AVAILABLE, BERTOPIC_AVAILABLE, now, store, pc, args,
                   current_date, results, attempted, last, call>>

\* topic_model.py:278: open(filename, 'w') truncates the file; no lock is taken
OpenFile(w) ==
    /\ writers[w].pc = "open"
    /\ store' = [store EXCEPT ![Filename(writers[w].topic_results)] = TextFile(<<>>)]
    /\ writers' = [writers EXCEPT ![w].pc = "dump"]
    /\ UNCHANGED <<SKLEARN_AVAILABLE, BERTOPIC_AVAILABLE, now, pc, args,
                   current_date, results, attempted, last, call>>

\* topic_model.py:279: json.dump, one buffer reaching the file
WriteChunk(w) ==
    /\ writers[w].pc = "dump"
    /\ writers[w].written < Flushes(writers[w].topic_results)
    /\ LET filename == Filename(writers[w].topic_results)
           pos == writers[w].written + 1
       IN  /\ store' = [store EXCEPT ![filename] =
                            TextFile(WriteAt(store[filename].chunks, pos,
                                             Text(writers[w].topic_results)[pos]))]
           /\ writers' = [writers EXCEPT ![w].written = pos]
    /\ UNCHANGED <<SKLEARN_AVAILABLE, BERTOPIC_AVAILABLE, now, pc, args,
                   current_date, results, attempted, last, call>>

\* topic_model.py:278-282: the with block ends, the file name is returned
CloseFile(w) ==
    /\ writers[w].pc = "dump"
    /\ writers[w].written = Flushes(writers[w].topic_results)
    /\ writers' = [writers EXCEPT ![w].pc = "done"]
    /\ UNCHANGED <<SKLEARN_AVAILABLE, BERTOPIC_AVAILABLE, now, store, pc, args,
                   current_date, results, attempted, last, call>>

NextConcurrent ==
    \E w \in Runs : BeginSave(w) \/ OpenFile(w) \/ WriteChunk(w) \/ CloseFile(w)

SpecConcurrent == InitPipeline /\ [][NextConcurrent]_vars

\* components_ rows of a one-topic model over vocabularies of every size up
\* to MaxWords, with equal and unequal weights
WeightRows == UNION {[1..n -> {1, 2}] : n \in 1..MaxWords}

\* one direct call of perform_lda_sklearn or perform_nmf
CallBackend ==
    /\ call.kind = "ready"
    /\ \E algorithm \in {"lda", "nmf"}, topic \in WeightRows, ties \in ArgsortTies :
       \E env \in {[fault |-> FALSE, components |-> <<topic>>, dists |-> << <<1>> >>,
                     argsort_ties |-> ties]} :
          call' = [kind |-> "fitted", algorithm |-> algorithm, env |-> env,
                   out |-> IF algorithm = "nmf"
                           THEN perform_nmf(<<"calcio">>, 1, env)
                           ELSE perform_lda_sklearn(<<"calcio">>, 1, env)]
    /\ UNCHANGED <<writers, SKLEARN_AVAILABLE, BERTOPIC_AVAILABLE, now, store, pc, args,
                   current_date, results, attempted, last>>

NextBackend == CallBackend

SpecBackend == InitPipeline /\ [][NextBackend]_vars

(***************************************************************************)
(* The claims.                                                             *)
(***************************************************************************)
CallReturned == call.kind = "returned"
HasResult == call.kind = "returned" /\ call.out.kind = "result"
FailedStages == {"no_articles", "no_result", "backend_raise"}
Ended == pc \in {"returned", "raised"}

\* the sources observed in the documents handed in
ObservedSources == {call.articles[i]["newspaper"] : i \in 1..Len(call.articles)}

\* how many documents of the input come from source
DocsFrom(source) ==
    Cardinality({i \in 1..Len(call.articles) : call.articles[i]["newspaper"] = source})

\* how often a document id is listed under the topics of a result
Occurrences(topics, id) ==
    SumSeq([t \in 1..Len(topics) |->
               Count(topics[t]["articles"], LAMBDA e : e["article_id"] = id)])

\* the document, as the run left it, carries the id of a topic of the result
IsAssigned(article, topics) ==
    /\ "dominant_topic" \in DOMAIN article
    /\ \E t \in 1..Len(topics) : topics[t]["topic_id"] = article["dominant_topic"]

Values(dict) == [i \in 1..Len(dict) |-> dict[i][2]]
HasKey(dict, k) == \E i \in 1..Len(dict) : dict[i][1] = k

\* C1: once process_single_day(D, A) has returned a result, load_topic_data(D, A)
\* returns that result, and when process_date_range has returned, every date
\* of its map has its own persisted result.
C1_StoredUnderDateKey ==
    /\ last.kind = "result" =>
           load_topic_data(last.date_str, last.algorithm) = Returned(Some(last.composed[1]))
    /\ pc = "returned" =>
           \A d \in DOMAIN results :
               load_topic_data(d, args.algorithm) = Returned(Some(results[d]))

\* C2: a failed run (no articles, empty corpus, backend failure or error)
\* does not end process_date_range: when the call has ended without a
\* persistence failure, every date from start_date to end_date was attempted.
C2_FailedRunDoesNotBlock ==
    (Ended /\ last.stage # "save_raise") =>
        \A d \in args.start_date..args.end_date : d \in Range(attempted)

\* C3: no backend failure leaves process_articles_for_topics as an exception.
C3_FailureIsNone ==
    CallReturned => call.out.kind # "raise"

\* C4: when every document's preprocessed text is empty or missing,
\* process_articles_for_topics returns None and calls no backend, whatever
\* the algorithm and whatever the backends would do.
C4_EmptyCorpusIsNone ==
    (CallReturned /\ \A i \in 1..Len(call.articles) :
                      Get(call.articles[i], "preprocessed_text", "") = "")
        => (call.out.kind = "none" /\ call.out.invoked = "")

C4_Witness ==
    /\ CallReturned
    /\ Len(call.articles) = 2
    /\ "preprocessed_text" \notin DOMAIN call.articles[1]
    /\ Get(call.articles[2], "preprocessed_text", "x") = ""
    /\ call.env.fault
    /\ ~SKLEARN_AVAILABLE
    /\ call.out.kind = "none"

\* C5: a process_single_day call that ends with no articles, with no result
\* or with a backend error leaves the store as it was.
C5_NoResultNoWrite ==
    [][(attempted' # attempted /\ last'.stage \in FailedStages) => store' = store]_vars

C5_Witness ==
    /\ last.stage \in {"no_result", "backend_raise"}
    /\ \E k \in DOMAIN store : store[k].kind = "json"

\* C6: when save_topic_results fails, process_single_day still returns the
\* composed result and process_date_range records it under that date.
C6_SaveFailureStillReturns ==
    last.stage = "save_raise" =>
        /\ last.kind = "result"
        /\ last.date_str \in DOMAIN results
        /\ results[last.date_str] = last.composed[1]

\* C7: every input document is listed under at most one topic and at most
\* once: once when it is assigned to a topic of the result, never otherwise;
\* listed documents plus unassigned documents are all the input documents.
C7_AtMostOneTopic ==
    HasResult =>
        LET topics == call.out.value.topics
            after == call.out.articles
            n == Len(call.articles)
        IN  /\ \A i \in 1..n :
                   Occurrences(topics, call.articles[i]["article_id"])
                       = IF IsAssigned(after[i], topics) THEN 1 ELSE 0
            /\ SumSeq([t \in 1..Len(topics) |-> Len(topics[t]["articles"])])
                   + Cardinality({i \in 1..n : ~IsAssigned(after[i], topics)}) = n

C7_Witness ==
    /\ HasResult
    /\ Len(call.out.value.topics) = 2
    /\ \E i, j \in 1..Len(call.articles) :
           /\ IsAssigned(call.out.articles[i], call.out.value.topics)
           /\ ~IsAssigned(call.out.articles[j], call.out.value.topics)

\* C8: in every topic of a result the per-source counts add up to the
\* number of articles listed under the topic.
C8_CountsSumToArticles ==
    HasResult =>
        \A t \in 1..Len(call.out.value.topics) :
            LET topic == call.out.value.topics[t]
            IN  SumSeq(Values(topic["newspaper_counts"])) = Len(topic["articles"])

C8_Witness ==
    /\ HasResult
    /\ \E t \in 1..Len(call.out.value.topics) :
           LET topic == call.out.value.topics[t]
           IN  /\ Len(topic["articles"]) = 2
               /\ topic["articles"][1]["newspaper"] # topic["articles"][2]["newspaper"]

\* C9: every topic of a result has a count and a weight for every source
\* observed in the input, 0 for a source with no article in the topic.
C9_EverySourceHasEntry ==
    HasResult =>
        \A t \in 1..Len(call.out.value.topics) : \A source \in ObservedSources :
            LET topic == call.out.value.topics[t]
            IN  /\ HasKey(topic["newspaper_counts"], source)
                /\ HasKey(topic["newspaper_weights"], source)
                /\ (\A j \in 1..Len(topic["articles"]) :
                        topic["articles"][j]["newspaper"] # source)
                       => /\ DictGet(topic["newspaper_counts"], source) = 0
                          /\ DictGet(topic["newspaper_weights"], source) = Zero

C9_Witness ==
    /\ HasResult
    /\ \E source \in ObservedSources :
           /\ \A i \in 1..Len(call.articles) :
                  call.articles[i]["newspaper"] = source
                      => ~IsAssigned(call.out.articles[i], call.out.value.topics)
           /\ \E t \in 1..Len(call.out.value.topics) :
                  /\ Len(call.out.value.topics[t]["articles"]) = 1
                  /\ DictGet(call.out.value.topics[t]["newspaper_counts"], source) = 0

\* C10: a weight is the count divided by the number of input documents of
\* the source, lies in [0, 1], and is 0 for a source without documents.
C10_WeightIsProportion ==
    HasResult =>
        \A t \in 1..Len(call.out.value.topics) :
            LET topic == call.out.value.topics[t]
                weights == topic["newspaper_weights"]
            IN  \A i \in 1..Len(weights) :
                    LET source == weights[i][1]
                        w == weights[i][2]
                        count == DictGet(topic["newspaper_counts"], source)
                    IN  /\ w[2] > 0 /\ 0 <= w[1] /\ w[1] <= w[2]
                        /\ DocsFrom(source) > 0 => w[1] * DocsFrom(source) = count * w[2]
                        /\ DocsFrom(source) = 0 => w = Zero

C10_Witness ==
    /\ HasResult
    /\ \E t \in 1..Len(call.out.value.topics) :
           \E i \in 1..Len(call.out.value.topics[t]["newspaper_weights"]) :
               call.out.value.topics[t]["newspaper_weights"][i][2] = <<1, 2>>

\* the positions of the documents whose text reaches the backend
KeptIndices(articles) ==
    SelectSeq([i \in 1..Len(articles) |-> i],
              LAMBDA i : Get(articles[i], "preprocessed_text", "") # "")

\* the document id is listed under no topic
Unlisted(topics, id) == Occurrences(topics, id) = 0

\* C11: the outlier label -1 is the topic_id of no topic of a result, whatever
\* the backend, and a document whose dominant topic is -1 (as the run marked
\* it, or as BERTopic labelled it) is listed under no topic.
C11_OutlierNeverATopic ==
    HasResult =>
        LET topics == call.out.value.topics
            after == call.out.articles
            kept == KeptIndices(call.articles)
        IN  /\ \A t \in 1..Len(topics) : topics[t]["topic_id"] # OUTLIER
            /\ \A i \in 1..Len(after) :
                   Get(after[i], "dominant_topic", 0) = OUTLIER
                       => Unlisted(topics, after[i]["article_id"])
            /\ call.out.invoked = "bertopic" =>
                   \A k \in 1..Len(kept) :
                       call.env.labels[k] = OUTLIER
                           => Unlisted(topics, call.articles[kept[k]]["article_id"])

C11_Witness ==
    /\ HasResult
    /\ call.out.invoked = "bertopic"
    /\ \E r \in 1..Len(call.env.topic_info) : call.env.topic_info[r].Topic = OUTLIER
    /\ \E k \in 1..Len(call.env.labels) : call.env.labels[k] = OUTLIER
    /\ Len(call.out.value.topics) >= 1

\* the run fitted an sklearn model, whose transform() rows are
\* doc_topic_dists (topic_model.py:180, 187)
UsedDists ==
    /\ CallReturned
    /\ call.out.invoked \in {"lda", "nmf"}
    /\ SKLEARN_AVAILABLE
    /\ ~call.env.fault

\* C12: when doc_topic_dists has fewer rows than there are input documents,
\* the run ends with a result (no index fault), and every document at a
\* position at or beyond the number of rows carries dominant_topic -1 and an
\* empty topic_distribution and is listed under no topic.
C12_ShortDistsMarkUnassigned ==
    (UsedDists /\ Len(call.env.dists) < Len(call.articles)) =>
        /\ call.out.kind = "result"
        /\ \A i \in (Len(call.env.dists) + 1)..Len(call.articles) :
               LET after == call.out.articles[i]
               IN  /\ "dominant_topic" \in DOMAIN after
                   /\ after["dominant_topic"] = OUTLIER
                   /\ "topic_distribution" \in DOMAIN after
                   /\ after["topic_distribution"] = <<>>
                   /\ Unlisted(call.out.value.topics, after["article_id"])

C12_Witness ==
    /\ UsedDists
    /\ Len(call.articles) = 2
    /\ Len(call.env.dists) = 1
    /\ call.out.kind = "result"
    /\ call.out.articles[2]["dominant_topic"] = OUTLIER
    /\ Len(call.out.value.topics[1]["articles"]) = 1

\* C13: in every result num_articles is the number of documents handed in,
\* counted before the documents with an empty text are dropped, and
\* num_topics is the length of the result's topics.
C13_CountsMatchInput ==
    HasResult =>
        /\ call.out.value.num_articles = Len(call.articles)
        /\ call.out.value.num_topics = Len(call.out.value.topics)

C13_Witness ==
    /\ HasResult
    /\ Len(call.articles) = 2
    /\ Len(KeptIndices(call.articles)) = 1
    /\ call.out.value.num_articles = 2
    /\ call.out.value.num_topics = 2

\* C14: process_articles_for_topics leaves the documents it was handed
\* unchanged: after the call the caller's list holds the same dicts with the
\* same keys and values as before.
C14_InputUnchanged ==
    CallReturned => call.out.articles = call.articles

\* C15: a call on a list an earlier call has already processed returns what
\* the same call returns on a fresh copy of the documents: the same outcome
\* and, in a result, the same topics with the same article lists and
\* per-source counts and weights.
C15_AssignmentsRunLocal ==
    call.kind = "rerun" =>
        /\ call.out.kind = call.fresh.kind
        /\ call.out.kind = "result" => call.out.value.topics = call.fresh.value.topics

\* C16: the topics of a result were computed by the backend the caller
\* named: the backend that ran is the requested algorithm, and the result's
\* algorithm field names the backend that ran.
C16_SelectedBackendRuns ==
    HasResult =>
        /\ call.out.invoked = call.algorithm
        /\ call.out.value.algorithm = call.out.invoked

\* the keys of a dict in the order they are emitted
Keys(dict) == [i \in 1..Len(dict) |-> dict[i][1]]

LexAscending(keys) == \A i, j \in 1..Len(keys) : i < j => Lex(keys[i]) < Lex(keys[j])

\* C17: in every result the topics come in ascending topic_id order, and in
\* every topic the entries of newspaper_counts and of newspaper_weights come
\* in ascending lexical order of the source id, whatever order the set of
\* sources iterates in.
C17_SortedEmission ==
    HasResult =>
        LET topics == call.out.value.topics
        IN  /\ \A s, t \in 1..Len(topics) :
                   s < t => topics[s]["topic_id"] < topics[t]["topic_id"]
            /\ \A t \in 1..Len(topics) :
                   /\ LexAscending(Keys(topics[t]["newspaper_counts"]))
                   /\ LexAscending(Keys(topics[t]["newspaper_weights"]))

\* C18: two calls with equal documents, the same algorithm and n_topics and
\* the same backend output return equal results: the same date, algorithm,
\* counts, topics in the same order, article lists and per-source entries in
\* the same order.
C18_RepeatedRunIdentical ==
    call.kind = "repeated" =>
        /\ call.out.kind = call.first.kind
        /\ call.out.value = call.first.value

\* the files of the store that exist
Records(files) == {k \in DOMAIN files : files[k].kind # "absent"}

\* C19: a save that succeeds leaves under the result's (date, algorithm)
\* exactly that result, which load_topic_data then returns, and leaves every
\* other key as it was; saving over a record of the same key adds no record,
\* and saving a result that is already stored leaves the store as it was.
C19_IdempotentOverwrite ==
    (call.kind = "saved" /\ call.outcome = "return") =>
        LET r == call.topic_results
            key == <<r.date, r.algorithm>>
        IN  /\ load_topic_data(r.date, r.algorithm) = Returned(Some(r))
            /\ \A k \in DOMAIN store : k # key => store[k] = call.before[k]
            /\ Records(store) = Records(call.before) \cup {key}
            /\ call.before[key] = JsonFile(r) => store = call.before

C19_Witness ==
    /\ call.kind = "saved"
    /\ call.outcome = "return"
    /\ \E k \in DOMAIN store :
           /\ k = <<call.topic_results.date, call.topic_results.algorithm>>
           /\ call.before[k].kind = "json"
           /\ call.before[k].content # call.topic_results
           /\ store[k] = JsonFile(call.topic_results)

\* chunks is the text of topic_results as far as a save has written it
WrittenPrefix(chunks, topic_results) ==
    /\ Len(chunks) <= Flushes(topic_results)
    /\ \A i \in 1..Len(chunks) : chunks[i] = Text(topic_results)[i]

\* C20: two runs that save under one (date, algorithm) at the same time do
\* not interleave their writes: at every moment the file holds text of one
\* run only (nothing yet, or that run's text as far as it is written), and
\* once both saves have ended it holds the complete text of one of the runs.
C20_NoInterleavedWrites ==
    \A k \in DOMAIN store :
        store[k].kind = "text" =>
            /\ \E w \in Runs :
                   /\ writers[w].pc # "idle"
                   /\ WrittenPrefix(store[k].chunks, writers[w].topic_results)
            /\ (\A w \in Runs : writers[w].pc = "done") =>
                   \E w \in Runs : store[k].chunks = Text(writers[w].topic_results)

\* C21: for lda and nmf, the dominant topic a document carries after the run
\* is the argmax of the transform() row fitted for that document's own text,
\* also when documents before it were dropped for their empty text; and a
\* document with an empty text is listed under no topic.
C21_RowBelongsToDocument ==
    (UsedDists /\ call.out.kind = "result") =>
        LET kept == KeptIndices(call.articles)
            after == call.out.articles
        IN  /\ \A k \in 1..Len(kept) :
                   /\ "dominant_topic" \in DOMAIN after[kept[k]]
                   /\ after[kept[k]]["dominant_topic"] = Argmax(call.env.dists[k])
            /\ \A i \in 1..Len(call.articles) :
                   Get(call.articles[i], "preprocessed_text", "") = ""
                       => Unlisted(call.out.value.topics, call.articles[i]["article_id"])

\* the document id is listed under the topic with this topic_id
ListedUnder(topics, topic_id, id) ==
    \E t \in 1..Len(topics) :
        /\ topics[t]["topic_id"] = topic_id
        /\ \E j \in 1..Len(topics[t]["articles"]) :
               topics[t]["articles"][j]["article_id"] = id

\* C22: in a result of the bertopic backend every document is assigned the
\* label fit_transform reported for it: a document labelled with a topic id
\* is listed under that topic, a document labelled -1 is listed nowhere.
C22_LabelIsDominantTopic ==
    (HasResult /\ call.out.invoked = "bertopic") =>
        LET kept == KeptIndices(call.articles)
            topics == call.out.value.topics
        IN  \A k \in 1..Len(kept) :
                LET id == call.articles[kept[k]]["article_id"]
                IN  IF call.env.labels[k] = OUTLIER
                    THEN Unlisted(topics, id)
                    ELSE ListedUnder(topics, call.env.labels[k], id)

\* C23: a document that was given a distribution row carries as dominant
\* topic the index of the row's maximum, the lowest topic_id among the topics
\* that share the maximum.
C23_ArgmaxLowestId ==
    (UsedDists /\ call.out.kind = "result") =>
        \A i \in 1..Len(call.out.articles) :
            LET after == call.out.articles[i]
                row == after["topic_distribution"]
                d == after["dominant_topic"]
            IN  row # <<>> =>
                    /\ 0 <= d /\ d < Len(row)
                    /\ \A k \in 1..Len(row) : row[k] <= row[d + 1]
                    /\ \A k \in 1..d : row[k] < row[d + 1]

C23_Witness ==
    /\ UsedDists
    /\ call.out.kind = "result"
    /\ \E i \in 1..Len(call.out.articles) :
           /\ call.out.articles[i]["topic_distribution"] = <<1, 1>>
           /\ call.out.articles[i]["dominant_topic"] = 0
    /\ \E i \in 1..Len(call.out.articles) :
           /\ call.out.articles[i]["topic_distribution"] = <<0, 1>>
           /\ call.out.articles[i]["dominant_topic"] = 1

\* the vocabulary index of a word
WordIdx(word) == CHOOSE i \in 1..Len(feature_names) : feature_names[i] = word

\* C24: the words of every lda or nmf topic are the (at most TopN) entries
\* of the vocabulary with the highest weights, by descending weight, words of
\* equal weight in ascending vocabulary index; words and weights have the
\* same length and weights[i] is the weight of words[i].
C24_TopWordsStable ==
    (call.kind = "fitted" /\ call.out.kind = "return" /\ Len(call.out.value) = 4) =>
        LET topics == call.out.value[1][1]
        IN  \A t \in 1..Len(topics) :
                LET row == call.env.components[t]
                    words == topics[t].words
                    weights == topics[t].weights
                    k == IF Len(row) < TopN THEN Len(row) ELSE TopN
                    chosen == {WordIdx(words[i]) : i \in 1..Len(words)}
                IN  /\ Len(words) = k
                    /\ Len(weights) = k
                    /\ Cardinality(chosen) = k
                    /\ \A i \in 1..k : weights[i] = row[WordIdx(words[i])]
                    /\ \A b \in (1..Len(row)) \ chosen : \A i \in 1..k : row[b] <= weights[i]
                    /\ \A i, j \in 1..k :
                           i < j => /\ weights[i] >= weights[j]
                                    /\ weights[i] = weights[j]
                                           => WordIdx(words[i]) < WordIdx(words[j])

\* the calendar days from start_date to end_date, ascending
DaysOfRange ==
    IF args.start_date > args.end_date THEN <<>>
    ELSE [i \in 1..(args.end_date - args.start_date + 1) |-> args.start_date + i - 1]

\* C25: when no run raises, process_date_range ends; when it has returned,
\* process_single_day was called exactly once for each day from start_date to
\* end_date, in ascending order (not at all when start_date is after
\* end_date); and the returned map holds exactly the dates whose run returned
\* a result: a run that returns one adds its date with that result, a run
\* that returns None adds nothing, and no run touches another date's entry.
C25_RangeRunsEachDayOnce ==
    /\ [](pc = "returned" => attempted = DaysOfRange)
    /\ [][(attempted' # attempted /\ last'.kind # "raise") =>
             /\ (last'.date_str \in DOMAIN results') <=> (last'.kind = "result")
             /\ last'.kind = "result" => results'[last'.date_str] = last'.composed[1]
             /\ \A d \in Days \ {last'.date_str} :
                    /\ (d \in DOMAIN results') <=> (d \in DOMAIN results)
                    /\ d \in DOMAIN results => results'[d] = results[d]]_vars
    /\ [](pc = "idle" => results = <<>>)
    /\ (pc = "loop" ~> Ended)

C25_Witness ==
    /\ pc = "returned"
    /\ args.start_date = 1
    /\ args.end_date = MaxDay
    /\ Len(attempted) = MaxDay
    /\ 1 \in DOMAIN results
    /\ 2 \notin DOMAIN results

====
